---- MODULE Spec2Model ----
(***************************************************************************)
(* Model of the prediction-market command line tool (src/src/index.ts).    *)
(* One run of the process: environment resolution at module load,          *)
(* parseArguments, the two ABI reads, setupEthers, createContract twice,   *)
(* getTokenInfo, getUserShares, the requested action (executeBuy with      *)
(* checkAndApprove, executeSell, executeClaimWinnings), getUserShares      *)
(* again, and the process exit.  Every call that reaches the node is       *)
(* appended to `calls` in the order it is issued.                          *)
(***************************************************************************)
EXTENDS Integers, Sequences, FiniteSets, TLC

\* ------------------------------------------------------------------ bounds
MaxTokLen == 2      \* longest command line token, in characters
MaxAmount == 2      \* largest token balance / allowance held on chain
MaxGas    == 5      \* largest gas estimate the node returns

\* ------------------------------------------------------- command line input
\* A positional parameter is a string, modelled as a sequence of characters.
Chars == {"0", "1", "2"}

DigitVal == [c \in {"0", "1", "2", "3", "4", "5", "6", "7", "8", "9"} |->
               CASE c = "0" -> 0 [] c = "1" -> 1 [] c = "2" -> 2 [] c = "3" -> 3
                 [] c = "4" -> 4 [] c = "5" -> 5 [] c = "6" -> 6 [] c = "7" -> 7
                 [] c = "8" -> 8 [] c = "9" -> 9]

\* The values tried for <value>: the decimal strings up to MaxTokLen characters
\* (the empty string among them) and one string that is no number.
Tokens == (UNION {[1..n -> Chars] : n \in 0..MaxTokLen}) \cup {<<"x">>}

\* A field of ParsedArguments that was never assigned.
UNDEFINED == <<"undefined">>

\* JavaScript truthiness of an optional string: undefined and "" are falsy.
Truthy(s) == s # UNDEFINED /\ s # <<>>

IsDigits(s) == \A i \in 1..Len(s) : s[i] \in DOMAIN DigitVal

RECURSIVE DecimalValue(_)
DecimalValue(s) ==
  IF s = <<>> THEN 0
  ELSE 10 * DecimalValue(SubSeq(s, 1, Len(s) - 1)) + DigitVal[s[Len(s)]]

\* BigInt(value): "" converts to 0n, a decimal string to its value, anything
\* else throws a SyntaxError.
BigIntThrows(s) == ~IsDigits(s)
BigIntOf(s) == DecimalValue(s)

\* What the client library can encode as a uint256 argument: a non-empty
\* decimal string.  A call with any other argument throws before it is sent.
Encodable(s) == s # <<>> /\ s # UNDEFINED /\ IsDigits(s)

\* ethers.MaxUint256.toString(): 2^256 - 1 in decimal.
MaxUint256String ==
  << "1","1","5","7","9","2","0","8","9","2","3","7","3","1","6","1","9","5","4","2",
     "3","5","7","0","9","8","5","0","0","8","6","8","7","9","0","7","8","5","3","2",
     "6","9","9","8","4","6","6","5","6","4","0","5","6","4","0","3","9","4","5","7",
     "5","8","4","0","0","7","9","1","3","1","2","9","6","3","9","9","3","5" >>

DefaultMinShares == <<"0">>
DefaultMaxShares == MaxUint256String

EnvNames == {"RPC_URL", "CONTRACT_ADDRESS", "ERC20_TOKEN_ADDRESS"}

ActionWords == {"buy", "sell", "claimWinnings", "transfer"}
PrivateKeys == {"0xKEY", "notakey"}
MarketIds   == {<<>>, <<"1">>, <<"x">>}
OutcomeIds  == {<<"0">>}
ShareTokens == {<<>>, <<"0">>, <<"2">>}
ExtraTokens == {<<"1">>}

\* The positional parameters after the private key, zero to five of them.
Positionals ==
  {<<>>}
  \cup {<<m>> : m \in MarketIds}
  \cup {<<m, o>> : m \in MarketIds, o \in OutcomeIds}
  \cup {<<m, o, v>> : m \in MarketIds, o \in OutcomeIds, v \in Tokens}
  \cup {<<m, o, v, s>> : m \in MarketIds, o \in OutcomeIds, v \in Tokens, s \in ShareTokens}
  \cup {<<m, o, v, s, x>> : m \in MarketIds, o \in OutcomeIds, v \in Tokens,
                            s \in ShareTokens, x \in ExtraTokens}

\* process.argv.slice(2)
ArgvSet ==
  {<<>>}
  \cup {<<a>> : a \in ActionWords}
  \cup {<<a, k>> \o p : a \in ActionWords, k \in PrivateKeys, p \in Positionals}

VARIABLES
  env,              \* the names of the environment variables that are set
  argv,             \* process.argv.slice(2)
  pc,               \* the statement the process is at
  args,             \* ParsedArguments
  chainAllowance,   \* allowance(signer, CONTRACT_ADDRESS) held by the token contract
  balance,          \* executeBuy: the balance read, -1 before the read
  currentAllowance, \* checkAndApprove: the allowance read, -1 before the read
  gasEstimate,      \* the gas estimate of the transaction being prepared
  preShares,        \* result of getUserShares before the action
  postShares,       \* result of getUserShares after the action
  calls,            \* the calls issued to the node, in order
  stages,           \* the stages of the run entered so far, in order
  stderr,           \* the kind of the fatal error reported, "" if none
  successPrinted,   \* 'Action completed successfully!' was printed
  exitCode,         \* the exit code, meaningful once pc = "exited"
  interfered,       \* another party has changed the allowance during the run
  allowanceAtBuy    \* the on-chain allowance when buy was submitted, -1 before

vars == <<env, argv, pc, args, chainAllowance, balance, currentAllowance,
          gasEstimate, preShares, postShares, calls, stages, stderr,
          successPrinted, exitCode, interfered, allowanceAtBuy>>

NoArgs == [action |-> "", privateKey |-> "", marketId |-> UNDEFINED,
           outcomeId |-> UNDEFINED, value |-> UNDEFINED,
           minShares |-> UNDEFINED, maxShares |-> UNDEFINED]

Init ==
  /\ env \in SUBSET EnvNames
  /\ argv \in ArgvSet
  /\ chainAllowance \in 0..MaxAmount
  /\ pc = "env"
  /\ args = NoArgs
  /\ balance = -1
  /\ currentAllowance = -1
  /\ gasEstimate = -1
  /\ preShares = "unread"
  /\ postShares = "unread"
  /\ calls = <<>>
  /\ stages = <<>>
  /\ stderr = ""
  /\ successPrinted = FALSE
  /\ exitCode = 0
  /\ interfered = FALSE
  /\ allowanceAtBuy = -1

\* ------------------------------------------------------------ pure helpers
\* args[i] of the JavaScript array, whose indices start at 0.
ArgAt(a, i) == IF i + 1 <= Len(a) THEN a[i + 1] ELSE UNDEFINED

\* Mutation of OrDefault: the default replaces the argument even when one
\* is given.
OrDefaultAlways(x, dflt) == dflt

\* args[5] || dflt
OrDefault(x, dflt) == IF Truthy(x) THEN x ELSE dflt

Rejected(kind) == [exit |-> TRUE, msg |-> kind, parsed |-> NoArgs]
Accepted(p) == [exit |-> FALSE, msg |-> "", parsed |-> p]

\* const parsedArgs = { action, privateKey }
BaseArgs(a) == [NoArgs EXCEPT !.action = a[1], !.privateKey = a[2]]

\* Mutation of ParseBuy: the arity check is off by one.
ParseBuyOffByOne(a) ==
  IF Len(a) < 4 THEN Rejected("arity")
  ELSE Accepted([BaseArgs(a) EXCEPT !.marketId = ArgAt(a, 2),
                                    !.outcomeId = ArgAt(a, 3),
                                    !.value = ArgAt(a, 4),
                                    !.minShares = OrDefault(ArgAt(a, 5), DefaultMinShares)])

\* parseArguments, case 'buy'
ParseBuy(a) ==
  IF Len(a) < 5 THEN Rejected("arity")
  ELSE Accepted([BaseArgs(a) EXCEPT !.marketId = ArgAt(a, 2),
                                    !.outcomeId = ArgAt(a, 3),
                                    !.value = ArgAt(a, 4),
                                    !.minShares = OrDefault(ArgAt(a, 5), DefaultMinShares)])

\* parseArguments, case 'sell'
ParseSell(a) ==
  IF Len(a) < 5 THEN Rejected("arity")
  ELSE Accepted([BaseArgs(a) EXCEPT !.marketId = ArgAt(a, 2),
                                    !.outcomeId = ArgAt(a, 3),
                                    !.value = ArgAt(a, 4),
                                    !.maxShares = OrDefault(ArgAt(a, 5), DefaultMaxShares)])

\* parseArguments, case 'claimWinnings'
ParseClaimWinnings(a) ==
  IF Len(a) < 3 THEN Rejected("arity")
  ELSE Accepted([BaseArgs(a) EXCEPT !.marketId = ArgAt(a, 2)])

\* Mutation of ParseDefault: the default case reports nothing and falls
\* through to the return.
ParseDefaultFallsThrough(a) == Accepted(BaseArgs(a))

\* parseArguments, default case
ParseDefault(a) == Rejected("unknown action")

\* parseArguments: the process exits with status 1 (exit = TRUE) or returns
\* the parsed arguments.
ParseArguments(a) ==
  IF Len(a) < 2 THEN Rejected("usage")
  ELSE CASE a[1] = "buy" -> ParseBuy(a)
         [] a[1] = "sell" -> ParseSell(a)
         [] a[1] = "claimWinnings" -> ParseClaimWinnings(a)
         [] OTHER -> ParseDefault(a)

\* new ethers.Wallet(privateKey, provider) throws on a malformed key.
ValidKey(k) == k = "0xKEY"

\* Mutation of GasLimit: the estimate is passed on without the buffer.
GasLimitUnbuffered(e) == e

\* gasEstimate * BigInt(120) / BigInt(100): BigInt division truncates.
GasLimit(e) == (e * 120) \div 100

\* Mutation of NeedsApproval: an allowance one unit short passes the check.
NeedsApprovalOffByOne(a, amount) == a + 1 < amount

\* Mutation of NeedsApproval: the comparison lets an equal allowance through
\* to the approval.
NeedsApprovalWhenEqual(a, amount) == a <= amount

\* currentAllowance < amount
NeedsApproval(a, amount) == a < amount

\* Mutation of ApprovalAmount: more than the amount asked for is approved.
ApprovalAmountPadded(amount) == amount + 1

\* The amount checkAndApprove approves: the amount it was asked to cover.
ApprovalAmount(amount) == amount

\* Mutation of InsufficientBalance: the operands of the comparison swapped.
InsufficientBalanceSwapped(b, v) == v < b

\* balance < BigInt(value)
InsufficientBalance(b, v) == b < v

\* The arguments of the contract method each action calls.
CallArgs(p) ==
  CASE p.action = "buy" -> <<p.marketId, p.outcomeId, p.minShares, p.value>>
    [] p.action = "sell" -> <<p.marketId, p.outcomeId, p.value, p.maxShares>>
    [] p.action = "claimWinnings" -> <<p.marketId>>

AllEncodable(t) == \A i \in 1..Len(t) : Encodable(t[i])

Call(op, a, limit) == [op |-> op, args |-> a, gasLimit |-> limit]

\* The stage s is entered: recorded once, when the run first gets to it.
Enter(s) ==
  stages' = IF stages # <<>> /\ stages[Len(stages)] = s THEN stages
            ELSE Append(stages, s)

\* ------------------------------------------------------------- process exit
\* process.exit(code) after reporting an error of the given kind.
Exit(code, kind) ==
  /\ pc' = "exited"
  /\ exitCode' = code
  /\ stderr' = kind

\* Mutation of Throw: main's catch reports the error and returns, so the
\* process ends with status 0.
ThrowWithoutExit(kind) == Exit(0, kind)

\* Mutation of Throw: the statement that failed is attempted again instead
\* of ending the run.
ThrowRetries(kind) ==
  /\ pc' = pc
  /\ UNCHANGED <<exitCode, stderr>>

\* An error thrown inside main's try block: the catch of main prints
\* 'Action failed!' and calls process.exit(1).
Throw(kind) == Exit(1, kind)

Goto(l) ==
  /\ pc' = l
  /\ UNCHANGED <<exitCode, stderr>>

\* ------------------------------------------------------------------ startup
\* Module load: RPC_URL, CONTRACT_ADDRESS, ERC20_TOKEN_ADDRESS are resolved
\* before main is called; the first one missing ends the process.
LoadEnv ==
  /\ pc = "env"
  /\ Enter("config")
  /\ IF EnvNames \subseteq env THEN Goto("parse") ELSE Exit(1, "config")
  /\ UNCHANGED <<env, argv, args, chainAllowance, interfered, allowanceAtBuy,
                 balance, currentAllowance, gasEstimate, preShares,
                 postShares, calls, successPrinted>>

ParseArgs ==
  /\ pc = "parse"
  /\ Enter("parse")
  /\ LET r == ParseArguments(argv) IN
       IF r.exit THEN Exit(1, r.msg) /\ UNCHANGED args
       ELSE Goto("readABI") /\ args' = r.parsed
  /\ UNCHANGED <<env, argv, chainAllowance, interfered, allowanceAtBuy,
                 balance, currentAllowance, gasEstimate, preShares,
                 postShares, calls, successPrinted>>

ReadABI ==
  /\ pc = "readABI"
  /\ Enter("abi")
  /\ \E readable \in BOOLEAN :
       IF readable THEN Goto("readERC20ABI") ELSE Exit(1, "abi")
  /\ UNCHANGED <<env, argv, args, chainAllowance, interfered, allowanceAtBuy,
                 balance, currentAllowance, gasEstimate, preShares,
                 postShares, calls, successPrinted>>

ReadERC20ABI ==
  /\ pc = "readERC20ABI"
  /\ Enter("abi")
  /\ \E readable \in BOOLEAN :
       IF readable THEN Goto("setup") ELSE Exit(1, "abi")
  /\ UNCHANGED <<env, argv, args, chainAllowance, interfered, allowanceAtBuy,
                 balance, currentAllowance, gasEstimate, preShares,
                 postShares, calls, successPrinted>>

\* setupEthers: provider, wallet, then the native balance query.
SetupEthers ==
  /\ pc = "setup"
  /\ Enter("connect")
  /\ IF ~ValidKey(args.privateKey)
       THEN Exit(1, "setup") /\ UNCHANGED calls
       ELSE /\ calls' = Append(calls, Call("getBalance", <<>>, -1))
            /\ \E ok \in BOOLEAN : IF ok THEN Goto("bindMarket") ELSE Exit(1, "setup")
  /\ UNCHANGED <<env, argv, args, chainAllowance, interfered, allowanceAtBuy,
                 balance, currentAllowance, gasEstimate, preShares,
                 postShares, successPrinted>>

\* createContract(CONTRACT_ADDRESS, abi, signer)
CreateMarketContract ==
  /\ pc = "bindMarket"
  /\ Enter("bind")
  /\ \E ok \in BOOLEAN : IF ok THEN Goto("bindToken") ELSE Exit(1, "bind")
  /\ UNCHANGED <<env, argv, args, chainAllowance, interfered, allowanceAtBuy,
                 balance, currentAllowance, gasEstimate, preShares,
                 postShares, calls, successPrinted>>

\* createContract(ERC20_TOKEN_ADDRESS, erc20Abi, signer)
CreateTokenContract ==
  /\ pc = "bindToken"
  /\ Enter("bind")
  /\ \E ok \in BOOLEAN : IF ok THEN Goto("tokenInfo") ELSE Exit(1, "bind")
  /\ UNCHANGED <<env, argv, args, chainAllowance, interfered, allowanceAtBuy,
                 balance, currentAllowance, gasEstimate, preShares,
                 postShares, calls, successPrinted>>

\* getTokenInfo: decimals, symbol and name are requested together and joined.
GetTokenInfo ==
  /\ pc = "tokenInfo"
  /\ Enter("tokenInfo")
  /\ calls' = calls \o <<Call("decimals", <<>>, -1), Call("symbol", <<>>, -1),
                         Call("name", <<>>, -1)>>
  /\ \E ok \in BOOLEAN : IF ok THEN Goto("preShares") ELSE Throw("tokenInfo")
  /\ UNCHANGED <<env, argv, args, chainAllowance, interfered, allowanceAtBuy,
                 balance, currentAllowance, gasEstimate, preShares,
                 postShares, successPrinted>>

\* ----------------------------------------------------------- getUserShares
\* One getUserShares(marketId): the read is sent when the market id can be
\* encoded; it returns the position, or null when anything in it failed.
SharesRead(result, sent) ==
  IF Encodable(args.marketId)
    THEN /\ sent = Append(calls, Call("getUserMarketShares", <<args.marketId>>, -1))
         /\ result \in {"value", "null"}
    ELSE /\ sent = calls
         /\ result = "null"

\* Mutation of CatchSharesError: the error is thrown on to the caller.
RethrowSharesError(result, continue) ==
  IF result = "null"
    THEN Throw("rpc") /\ UNCHANGED successPrinted
    ELSE continue

\* getUserShares' catch block logs the error and returns null: the caller
\* goes on whatever the result.
CatchSharesError(result, continue) == continue

\* Mutation of ActionEntry: the claimWinnings branch of the switch is
\* missing its call.
ActionEntrySkipsClaim(action) ==
  CASE action = "buy" -> "buyBalance"
    [] action = "sell" -> "sellEstimate"
    [] action = "claimWinnings" -> "postShares"
    [] OTHER -> "unknownAction"

\* The statement main continues at after the first position read.  The
\* default branch of main's switch is never reached: parseArguments has
\* already ended the process for every other action.
ActionEntry(action) ==
  CASE action = "buy" -> "buyBalance"
    [] action = "sell" -> "sellEstimate"
    [] action = "claimWinnings" -> "claimEstimate"
    [] OTHER -> "unknownAction"

\* main: 'if (args.marketId) await getUserShares(...)' before the action.
GetUserSharesBefore ==
  /\ pc = "preShares"
  /\ IF Truthy(args.marketId)
       THEN \E r \in {"value", "null"} :
              /\ Enter("preShares")
              /\ SharesRead(r, calls')
              /\ preShares' = r
              /\ CatchSharesError(r, Goto(ActionEntry(args.action)))
       ELSE /\ UNCHANGED <<preShares, calls, stages>>
            /\ Goto(ActionEntry(args.action))
  /\ UNCHANGED <<env, argv, args, chainAllowance, interfered, allowanceAtBuy,
                 balance, currentAllowance, gasEstimate, postShares,
                 successPrinted>>

\* ---------------------------------------------------------------- executeBuy
\* executeBuy up to the balance check: BigInt(value), balanceOf, comparison.
ExecuteBuyBalance ==
  /\ pc = "buyBalance"
  /\ Enter("balance")
  /\ IF BigIntThrows(args.value)
       THEN Throw("syntax") /\ UNCHANGED <<calls, balance>>
       ELSE /\ calls' = Append(calls, Call("balanceOf", <<>>, -1))
            /\ \/ Throw("rpc") /\ UNCHANGED balance
               \/ \E b \in 0..MaxAmount :
                    /\ balance' = b
                    /\ IF InsufficientBalance(b, BigIntOf(args.value))
                         THEN Throw("insufficient balance")
                         ELSE Goto("allowance")
  /\ UNCHANGED <<env, argv, args, chainAllowance, interfered, allowanceAtBuy,
                 currentAllowance, gasEstimate, preShares, postShares,
                 successPrinted>>

\* ----------------------------------------------------------- checkAndApprove
\* The allowance read and the decision.
CheckAllowance ==
  /\ pc = "allowance"
  /\ Enter("approval")
  /\ calls' = Append(calls, Call("allowance", <<>>, -1))
  /\ \/ Throw("rpc") /\ UNCHANGED currentAllowance
     \/ /\ currentAllowance' = chainAllowance
        /\ IF NeedsApproval(chainAllowance, BigIntOf(args.value))
             THEN Goto("approveEstimate")
             ELSE Goto("buyEstimate")
  /\ UNCHANGED <<env, argv, args, chainAllowance, interfered, allowanceAtBuy,
                 balance, gasEstimate, preShares, postShares, successPrinted>>

\* tokenContract.approve.estimateGas(spenderAddress, amount)
ApproveEstimate ==
  /\ pc = "approveEstimate"
  /\ Enter("approval")
  /\ calls' = Append(calls, Call("approve.estimateGas",
                                 <<ApprovalAmount(BigIntOf(args.value))>>, -1))
  /\ \/ Throw("rpc") /\ UNCHANGED gasEstimate
     \/ \E e \in 0..MaxGas : gasEstimate' = e /\ Goto("approveFee")
  /\ UNCHANGED <<env, argv, args, chainAllowance, interfered, allowanceAtBuy,
                 balance, currentAllowance, preShares, postShares,
                 successPrinted>>

\* provider.getFeeData() inside checkAndApprove
ApproveFeeData ==
  /\ pc = "approveFee"
  /\ Enter("approval")
  /\ calls' = Append(calls, Call("getFeeData", <<>>, -1))
  /\ \/ Throw("rpc")
     \/ Goto("approveSend")
  /\ UNCHANGED <<env, argv, args, chainAllowance, interfered, allowanceAtBuy,
                 balance, currentAllowance, gasEstimate, preShares,
                 postShares, successPrinted>>

\* tokenContract.approve(spenderAddress, amount, {gasLimit, gasPrice})
ApproveSend ==
  /\ pc = "approveSend"
  /\ Enter("approval")
  /\ calls' = Append(calls, Call("approve", <<ApprovalAmount(BigIntOf(args.value))>>,
                                 GasLimit(gasEstimate)))
  /\ \/ Throw("rpc")
     \/ Goto("approveWait")
  /\ UNCHANGED <<env, argv, args, chainAllowance, interfered, allowanceAtBuy,
                 balance, currentAllowance, gasEstimate, preShares,
                 postShares, successPrinted>>

\* approveTx.wait(): once the approval is mined the allowance is the amount
\* approved.
ApproveWait ==
  /\ pc = "approveWait"
  /\ Enter("approval")
  /\ calls' = Append(calls, Call("approve.wait", <<>>, -1))
  /\ \/ Throw("rpc") /\ UNCHANGED chainAllowance
     \/ /\ chainAllowance' = ApprovalAmount(BigIntOf(args.value))
        /\ Goto("buyEstimate")
  /\ UNCHANGED <<env, argv, args, interfered, allowanceAtBuy, balance,
                 currentAllowance, gasEstimate, preShares, postShares,
                 successPrinted>>

\* ------------------------------------------- estimate, submit, confirm steps
\* contract.<method>.estimateGas(...): arguments the library cannot encode
\* throw before anything is sent.
EstimateStep(method, next) ==
  /\ Enter("action")
  /\ IF ~AllEncodable(CallArgs(args))
       THEN Throw("argument") /\ UNCHANGED <<calls, gasEstimate>>
       ELSE /\ calls' = Append(calls, Call(method \o ".estimateGas", CallArgs(args), -1))
            /\ \/ Throw("rpc") /\ UNCHANGED gasEstimate
               \/ \E e \in 0..MaxGas : gasEstimate' = e /\ Goto(next)
  /\ UNCHANGED <<env, argv, args, chainAllowance, interfered, allowanceAtBuy,
                 balance, currentAllowance, preShares, postShares,
                 successPrinted>>

\* provider.getFeeData()
FeeDataStep(next) ==
  /\ Enter("action")
  /\ calls' = Append(calls, Call("getFeeData", <<>>, -1))
  /\ \/ Throw("rpc")
     \/ Goto(next)
  /\ UNCHANGED <<env, argv, args, chainAllowance, interfered, allowanceAtBuy,
                 balance, currentAllowance, gasEstimate, preShares,
                 postShares, successPrinted>>

\* contract.<method>(..., {gasLimit, gasPrice}); the callers say what becomes
\* of allowanceAtBuy.
SendStep(method, next) ==
  /\ Enter("action")
  /\ calls' = Append(calls, Call(method, CallArgs(args), GasLimit(gasEstimate)))
  /\ \/ Throw("rpc")
     \/ Goto(next)
  /\ UNCHANGED <<env, argv, args, chainAllowance, interfered, balance,
                 currentAllowance, gasEstimate, preShares, postShares,
                 successPrinted>>

\* tx.wait()
WaitStep(method) ==
  /\ Enter("action")
  /\ calls' = Append(calls, Call(method \o ".wait", <<>>, -1))
  /\ \/ Throw("rpc")
     \/ Goto("postShares")
  /\ UNCHANGED <<env, argv, args, chainAllowance, interfered, allowanceAtBuy,
                 balance, currentAllowance, gasEstimate, preShares,
                 postShares, successPrinted>>

ExecuteBuyEstimate == pc = "buyEstimate" /\ EstimateStep("buy", "buyFee")
ExecuteBuyFeeData == pc = "buyFee" /\ FeeDataStep("buySend")
\* The buy transaction is submitted against the allowance the chain holds
\* at that moment.
ExecuteBuySend ==
  /\ pc = "buySend"
  /\ SendStep("buy", "buyWait")
  /\ allowanceAtBuy' = chainAllowance
ExecuteBuyWait == pc = "buyWait" /\ WaitStep("buy")

\* executeSell formats BigInt(value) before it estimates.
ExecuteSellEstimate ==
  /\ pc = "sellEstimate"
  /\ IF BigIntThrows(args.value)
       THEN /\ Throw("syntax")
            /\ Enter("action")
            /\ UNCHANGED <<env, argv, args, chainAllowance, interfered,
                           allowanceAtBuy, balance, currentAllowance,
                           gasEstimate, preShares, postShares, calls,
                           successPrinted>>
       ELSE EstimateStep("sell", "sellFee")
ExecuteSellFeeData == pc = "sellFee" /\ FeeDataStep("sellSend")
ExecuteSellSend ==
  /\ pc = "sellSend"
  /\ SendStep("sell", "sellWait")
  /\ UNCHANGED allowanceAtBuy
ExecuteSellWait == pc = "sellWait" /\ WaitStep("sell")

ExecuteClaimEstimate == pc = "claimEstimate" /\ EstimateStep("claimWinnings", "claimFee")
ExecuteClaimFeeData == pc = "claimFee" /\ FeeDataStep("claimSend")
ExecuteClaimSend ==
  /\ pc = "claimSend"
  /\ SendStep("claimWinnings", "claimWait")
  /\ UNCHANGED allowanceAtBuy
ExecuteClaimWait == pc = "claimWait" /\ WaitStep("claimWinnings")

\* ------------------------------------------------------------- end of main
\* The success message; main returns and the process ends with status 0.
Finish ==
  /\ successPrinted' = TRUE
  /\ pc' = "exited"
  /\ exitCode' = 0
  /\ UNCHANGED stderr

\* main after the action: the second position read, then the end of main.
GetUserSharesAfter ==
  /\ pc = "postShares"
  /\ IF Truthy(args.marketId)
       THEN \E r \in {"value", "null"} :
              /\ Enter("postShares")
              /\ SharesRead(r, calls')
              /\ postShares' = r
              /\ CatchSharesError(r, Finish)
       ELSE /\ UNCHANGED <<postShares, calls, stages>>
            /\ Finish
  /\ UNCHANGED <<env, argv, args, chainAllowance, interfered, allowanceAtBuy,
                 balance, currentAllowance, gasEstimate, preShares>>

Next ==
  \/ LoadEnv
  \/ ParseArgs
  \/ ReadABI
  \/ ReadERC20ABI
  \/ SetupEthers
  \/ CreateMarketContract
  \/ CreateTokenContract
  \/ GetTokenInfo
  \/ GetUserSharesBefore
  \/ ExecuteBuyBalance
  \/ CheckAllowance
  \/ ApproveEstimate
  \/ ApproveFeeData
  \/ ApproveSend
  \/ ApproveWait
  \/ ExecuteBuyEstimate
  \/ ExecuteBuyFeeData
  \/ ExecuteBuySend
  \/ ExecuteBuyWait
  \/ ExecuteSellEstimate
  \/ ExecuteSellFeeData
  \/ ExecuteSellSend
  \/ ExecuteSellWait
  \/ ExecuteClaimEstimate
  \/ ExecuteClaimFeeData
  \/ ExecuteClaimSend
  \/ ExecuteClaimWait
  \/ GetUserSharesAfter

Spec == Init /\ [][Next]_vars

\* ------------------------------------------------ a run with another spender
\* The places of a buy between the allowance read of checkAndApprove and the
\* submission of the buy transaction.
CheckToBuy == {"approveEstimate", "approveFee", "approveSend", "approveWait",
               "buyEstimate", "buyFee", "buySend"}

\* Another party changes the signer's allowance for the market contract on
\* the chain (a transfer by the spender, or an approve from another session
\* of the signer) while the run is between its allowance read and its buy.
\* A change before the read is an initial allowance; a change after the buy
\* was submitted no longer meets it.
OtherSpender ==
  /\ pc \in CheckToBuy
  /\ \E a \in (0..MaxAmount) \ {chainAllowance} : chainAllowance' = a
  /\ interfered' = TRUE
  /\ UNCHANGED <<env, argv, pc, args, allowanceAtBuy, balance, currentAllowance,
                 gasEstimate, preShares, postShares, calls, stages, stderr,
                 successPrinted, exitCode>>

\* The runs the other party matters to: the command lines that ask for a buy.
InitConcurrent ==
  /\ Init
  /\ Len(argv) >= 1
  /\ argv[1] = "buy"

\* The steps of a buy run, and the other party's.
NextConcurrent ==
  \/ LoadEnv
  \/ ParseArgs
  \/ ReadABI
  \/ ReadERC20ABI
  \/ SetupEthers
  \/ CreateMarketContract
  \/ CreateTokenContract
  \/ GetTokenInfo
  \/ GetUserSharesBefore
  \/ ExecuteBuyBalance
  \/ CheckAllowance
  \/ ApproveEstimate
  \/ ApproveFeeData
  \/ ApproveSend
  \/ ApproveWait
  \/ ExecuteBuyEstimate
  \/ ExecuteBuyFeeData
  \/ ExecuteBuySend
  \/ ExecuteBuyWait
  \/ GetUserSharesAfter
  \/ OtherSpender

SpecConcurrent == InitConcurrent /\ [][NextConcurrent]_vars

\* ===================================================================== claims
Issued(op) == \E i \in 1..Len(calls) : calls[i].op = op
IndexOf(op) == CHOOSE i \in 1..Len(calls) : calls[i].op = op /\ \A j \in 1..(i - 1) : calls[j].op # op
Times(op) == Cardinality({i \in 1..Len(calls) : calls[i].op = op})
LastOp == IF calls = <<>> THEN "" ELSE calls[Len(calls)].op

EstimateOps == {"approve.estimateGas", "buy.estimateGas", "sell.estimateGas",
                "claimWinnings.estimateGas"}
SendOps == {"approve", "buy", "sell", "claimWinnings"}
WaitOps == {"approve.wait", "buy.wait", "sell.wait", "claimWinnings.wait"}

\* checkAndApprove has read the allowance; Required is the amount it was given.
AllowanceRead == currentAllowance # -1
Required == BigIntOf(args.value)
ApprovalPending == pc \in {"approveEstimate", "approveFee", "approveSend"}

\* C1 as stated: once checkAndApprove has read the allowance a and is past
\* its approval steps, an approve transaction has been submitted if and only if
\* a < r.
C1_AsStated ==
  (AllowanceRead /\ ~ApprovalPending) =>
    (Issued("approve") <=> currentAllowance < Required)

\* C1, amended: an approve transaction is submitted only if a < r; when
\* a < r the approval is always started with its gas estimation and the approve
\* transaction is missing only while the approval is still being prepared or
\* after its gas estimation or fee-data read failed and ended the run with
\* status 1; when a >= r checkAndApprove issues no gas estimation and no
\* transaction, and the next call after the allowance read is the buy's gas
\* estimation.
C1_ApproveOnlyWhenShort ==
  /\ Issued("approve") => (AllowanceRead /\ currentAllowance < Required)
  /\ (AllowanceRead /\ currentAllowance < Required) =>
       /\ pc = "approveEstimate" \/ Issued("approve.estimateGas")
       /\ ~Issued("approve") =>
            \/ ApprovalPending
            \/ /\ pc = "exited" /\ exitCode = 1
               /\ LastOp \in {"approve.estimateGas", "getFeeData"}
               /\ ~Issued("buy.estimateGas")
  /\ (AllowanceRead /\ currentAllowance >= Required) =>
       /\ ~Issued("approve.estimateGas") /\ ~Issued("approve") /\ ~Issued("approve.wait")
       /\ LET k == IndexOf("allowance") IN
            /\ k < Len(calls) => calls[k + 1].op = "buy.estimateGas"
            /\ \A j \in (k + 1)..Len(calls) :
                 calls[j].op \in {"buy.estimateGas", "getFeeData", "buy", "buy.wait",
                                  "getUserMarketShares"}
            /\ Times("getFeeData") <= 1

\* C1 witness: the approve transaction has just been submitted for an
\* allowance below the required amount.
C1_Witness ==
  /\ AllowanceRead /\ currentAllowance < Required
  /\ pc = "approveWait" /\ LastOp = "approve"

\* C2: in a buy run whose balance read returned less than the requested
\* value, the run has ended with the insufficient-balance error and status 1,
\* and no allowance read, gas estimation, fee read or transaction was issued.
C2_InsufficientBalanceFailsFast ==
  (args.action = "buy" /\ balance # -1 /\ balance < BigIntOf(args.value)) =>
    /\ pc = "exited" /\ exitCode = 1
    /\ stderr = "insufficient balance"
    /\ ~successPrinted
    /\ LastOp = "balanceOf"
    /\ \A i \in 1..Len(calls) :
         calls[i].op \notin ({"allowance", "getFeeData"} \cup EstimateOps
                              \cup SendOps \cup WaitOps)

\* C2 witness: a buy for more than the balance has ended.
C2_Witness ==
  /\ args.action = "buy" /\ balance # -1 /\ balance < BigIntOf(args.value)
  /\ balance > 0
  /\ pc = "exited"

BuyStages == {"buyEstimate", "buyFee", "buySend", "buyWait"}

\* C3: in a buy run, every approval call carries exactly the requested
\* value and at most one approve transaction is sent; the buy is reached only
\* after the allowance read, and then either the allowance read was short and
\* the approve transaction and its confirmed wait both precede the buy's gas
\* estimation and submission, or it was sufficient and the buy's gas estimation
\* directly follows the allowance read with no approve call at all; while an
\* approval that was needed has not been confirmed the buy is neither estimated
\* nor submitted.
C3_ApprovalBeforeBuy ==
  /\ \A i \in 1..Len(calls) :
       calls[i].op \in {"approve.estimateGas", "approve"} => calls[i].args = <<Required>>
  /\ Times("approve") <= 1
  /\ (pc \in BuyStages \/ Issued("buy.estimateGas") \/ Issued("buy")) =>
       /\ AllowanceRead
       /\ balance >= Required
       /\ IF currentAllowance < Required
            THEN /\ Issued("approve") /\ Issued("approve.wait")
                 /\ IndexOf("approve.estimateGas") < IndexOf("approve")
                 /\ IndexOf("approve") < IndexOf("approve.wait")
                 /\ Issued("buy.estimateGas") =>
                      IndexOf("approve.wait") < IndexOf("buy.estimateGas")
                 /\ Issued("buy") => IndexOf("approve.wait") < IndexOf("buy")
                 /\ chainAllowance = Required
            ELSE /\ ~Issued("approve.estimateGas") /\ ~Issued("approve")
                 /\ ~Issued("approve.wait")
                 /\ Issued("buy.estimateGas") =>
                      IndexOf("buy.estimateGas") = IndexOf("allowance") + 1
  /\ Issued("buy") => IndexOf("buy.estimateGas") < IndexOf("buy")
  /\ (AllowanceRead /\ currentAllowance < Required /\ chainAllowance # Required) =>
       /\ pc \notin BuyStages
       /\ ~Issued("buy.estimateGas") /\ ~Issued("buy")

\* C3 witness: the buy was submitted after an approval that was needed.
C3_Witness ==
  /\ AllowanceRead /\ currentAllowance < Required
  /\ Issued("approve.wait") /\ Issued("buy")

\* C4: the step that reads the position before the action always goes on to
\* the requested action and reports no error, and the step that reads it after
\* the action always prints the success message and ends the run with status 0,
\* also when the read failed and returned null.
C4_SharesFailureNotFatal ==
  [][ /\ pc = "preShares" =>
           /\ stderr' = ""
           /\ args.action = "buy" => pc' = "buyBalance"
           /\ args.action = "sell" => pc' = "sellEstimate"
           /\ args.action = "claimWinnings" => pc' = "claimEstimate"
      /\ pc = "postShares" =>
           /\ pc' = "exited" /\ exitCode' = 0
           /\ successPrinted' /\ stderr' = "" ]_vars

\* C4 witness: both position reads failed and the run ended successfully.
C4_Witness ==
  /\ preShares = "null" /\ postShares = "null"
  /\ Times("getUserMarketShares") = 2
  /\ pc = "exited" /\ exitCode = 0 /\ successPrinted

ValidationErrors == {"usage", "arity", "unknown action", "syntax", "argument"}
ConfigurationErrors == {"config", "abi"}
ExecutionErrors == {"setup", "bind", "tokenInfo", "insufficient balance", "rpc"}

\* C5: a run that ended with status 0 printed the success message, reported
\* no error, and submitted the requested action's transaction and waited for
\* its confirmation as its last call before the final position read; every
\* reported failure, of whatever kind, ended the run with status 1 and without
\* the success message; a missing environment value, a rejected command line or
\* a malformed key never gets past its stage.
C5_ExitCodes ==
  /\ (pc = "exited" /\ exitCode = 0) =>
       /\ successPrinted /\ stderr = ""
       /\ Issued(args.action) /\ Issued(args.action \o ".wait")
       /\ IndexOf(args.action) < IndexOf(args.action \o ".wait")
       /\ \A i \in (IndexOf(args.action \o ".wait") + 1)..Len(calls) :
            calls[i].op = "getUserMarketShares"
  /\ stderr # "" =>
       /\ stderr \in ValidationErrors \cup ConfigurationErrors \cup ExecutionErrors
       /\ pc = "exited" /\ exitCode = 1 /\ ~successPrinted
  /\ pc = "exited" => (exitCode = 1 <=> stderr # "")
  /\ pc # "exited" => ~successPrinted
  /\ (pc # "env" /\ ~(EnvNames \subseteq env)) => stderr = "config"
  /\ (pc \notin {"env", "parse"} /\ stderr # "config" /\ Len(argv) < 2) => stderr = "usage"
  /\ (pc \notin {"env", "parse", "readABI", "readERC20ABI", "setup"}
        /\ stderr \notin {"config", "usage", "arity", "unknown action", "abi"}
        /\ argv[2] # "0xKEY") => stderr = "setup"

\* C5 witness: a sell run that ended with status 0.
C5_Witness ==
  /\ pc = "exited" /\ exitCode = 0
  /\ args.action = "sell" /\ LastOp = "getUserMarketShares"

KnownActions == {"buy", "sell", "claimWinnings"}
BeforeNetwork == {"env", "parse", "exited"}

\* The command line was turned down: the run is at or before parseArguments
\* or has ended with status 1, and nothing was sent to the node.
TurnedDown ==
  /\ pc \in BeforeNetwork
  /\ calls = <<>>
  /\ pc = "exited" => (exitCode = 1 /\ ~successPrinted /\ stderr \in {"config", "unknown action", "arity"})

\* C6: for every action word other than buy, sell and claimWinnings, with
\* any private key and any positional parameters, the run never gets past
\* parseArguments, ends with status 1, and issues no call to the node.
C6_UnknownActionNoNetwork ==
  (Len(argv) >= 1 /\ argv[1] \notin KnownActions) =>
    /\ pc \in BeforeNetwork
    /\ calls = <<>>
    /\ stages \in {<<>>, <<"config">>, <<"config", "parse">>}
    /\ pc = "exited" => (exitCode = 1 /\ ~successPrinted)

\* C6 witness: an unknown action given with a key and five parameters was
\* turned down by parseArguments.
C6_Witness ==
  /\ Len(argv) = 7 /\ argv[1] = "transfer"
  /\ pc = "exited" /\ stderr = "unknown action"

\* C7 as stated: buy or sell with fewer than 3 parameters after the key is
\* turned down, and claimWinnings is turned down unless it has exactly 1.
C7_AsStated ==
  /\ (Len(argv) >= 2 /\ argv[1] \in {"buy", "sell"} /\ Len(argv) < 5) => TurnedDown
  /\ (Len(argv) >= 2 /\ argv[1] = "claimWinnings" /\ Len(argv) # 3) => TurnedDown

\* C7, amended: buy or sell with fewer than 3 parameters after the key is
\* turned down before any call to the node, and so is claimWinnings with none;
\* claimWinnings with one or more is accepted, its first parameter is the
\* market id and the others are ignored.
C7_ArityPerAction ==
  /\ (Len(argv) >= 2 /\ argv[1] \in {"buy", "sell"} /\ Len(argv) < 5) => TurnedDown
  /\ (Len(argv) >= 2 /\ argv[1] = "claimWinnings" /\ Len(argv) < 3) => TurnedDown
  /\ (Len(argv) >= 3 /\ argv[1] = "claimWinnings" /\ pc \notin {"env", "parse"}
        /\ stderr # "config") =>
       /\ stderr \notin {"usage", "arity", "unknown action"}
       /\ args = [NoArgs EXCEPT !.action = "claimWinnings", !.privateKey = argv[2],
                                !.marketId = argv[3]]

\* C7 witness: claimWinnings with more than one parameter after the key ran to a
\* successful end.
C7_Witness ==
  /\ Len(argv) > 3 /\ argv[1] = "claimWinnings"
  /\ pc = "exited" /\ exitCode = 0 /\ Issued("claimWinnings.wait")

\* 2^256 - 1 in decimal, computed on little-endian digit sequences as
\* 65536^16 - 1.
RECURSIVE TimesSmall(_, _, _)
TimesSmall(d, m, carry) ==
  IF d = <<>>
    THEN IF carry = 0 THEN <<>> ELSE <<carry % 10>> \o TimesSmall(<<>>, m, carry \div 10)
    ELSE <<(Head(d) * m + carry) % 10>>
           \o TimesSmall(Tail(d), m, (Head(d) * m + carry) \div 10)

RECURSIVE PowerOf65536(_)
PowerOf65536(k) == IF k = 0 THEN <<1>> ELSE TimesSmall(PowerOf65536(k - 1), 65536, 0)

DigitChar(n) == CHOOSE c \in DOMAIN DigitVal : DigitVal[c] = n

\* A power of two never ends in 0, so subtracting one changes the last digit only.
MaxUint256Decimal ==
  LET p == PowerOf65536(16)
      q == [p EXCEPT ![1] = p[1] - 1]
  IN [i \in 1..Len(q) |-> DigitChar(q[Len(q) + 1 - i])]

\* C8 as stated: every buy call carries minShares = the sixth argument when
\* one is given and "0" otherwise, and every sell call carries maxShares = the
\* sixth argument when one is given and 2^256 - 1 otherwise.
C8_AsStated ==
  \A i \in 1..Len(calls) :
    /\ calls[i].op \in {"buy", "buy.estimateGas"} =>
         calls[i].args = <<argv[3], argv[4],
                           IF Len(argv) >= 6 THEN argv[6] ELSE <<"0">>, argv[5]>>
    /\ calls[i].op \in {"sell", "sell.estimateGas"} =>
         calls[i].args = <<argv[3], argv[4], argv[5],
                           IF Len(argv) >= 6 THEN argv[6] ELSE MaxUint256Decimal>>

\* C8, amended: every buy call is buy(marketId, outcomeId, minShares, value)
\* with minShares = the sixth argument when one is given and is not the empty
\* string, and "0" otherwise; every sell call is
\* sell(marketId, outcomeId, value, maxShares) with maxShares = the sixth
\* argument when one is given and is not the empty string, and 2^256 - 1
\* otherwise.
C8_ShareBoundDefaults ==
  \A i \in 1..Len(calls) :
    /\ calls[i].op \in {"buy", "buy.estimateGas"} =>
         calls[i].args = <<argv[3], argv[4],
                           IF Len(argv) >= 6 /\ argv[6] # <<>> THEN argv[6] ELSE <<"0">>,
                           argv[5]>>
    /\ calls[i].op \in {"sell", "sell.estimateGas"} =>
         calls[i].args = <<argv[3], argv[4], argv[5],
                           IF Len(argv) >= 6 /\ argv[6] # <<>> THEN argv[6]
                           ELSE MaxUint256Decimal>>

\* C8 witness: a sell without maxShares was submitted, and its bound is the
\* 78-digit default.
C8_Witness ==
  /\ Len(argv) = 5 /\ Issued("sell")
  /\ Len(calls[IndexOf("sell")].args[4]) = 78

SentPcs == {"approveWait", "buyWait", "sellWait", "claimWait"}

\* C9 as stated: the gas limit of the transaction just submitted is
\* ceil(1.2 * e) for the estimate e it was prepared with, so it is never below
\* 1.2 * e.
C9_AsStated ==
  pc \in SentPcs =>
    LET limit == calls[Len(calls)].gasLimit IN
      /\ LastOp \in SendOps
      /\ limit * 100 >= 120 * gasEstimate
      /\ (limit - 1) * 100 < 120 * gasEstimate

\* C9, amended: the gas limit of the transaction just submitted (approve,
\* buy, sell or claimWinnings) is floor(1.2 * e) for the estimate e it was
\* prepared with: never below e, and below 1.2 * e by less than one unit.
C9_GasLimitRoundedDown ==
  pc \in SentPcs =>
    LET limit == calls[Len(calls)].gasLimit IN
      /\ LastOp \in SendOps
      /\ limit * 100 <= 120 * gasEstimate
      /\ (limit + 1) * 100 > 120 * gasEstimate
      /\ limit >= gasEstimate

\* C9 witness: an approve transaction was submitted with limit 6 for an
\* estimate of 5.
C9_Witness ==
  /\ pc = "approveWait" /\ gasEstimate = 5
  /\ calls[Len(calls)].gasLimit = 6

\* s is t with some elements left out, the others in the order of t.
RECURSIVE IsSubsequence(_, _)
IsSubsequence(s, t) ==
  IF s = <<>> THEN TRUE
  ELSE IF t = <<>> THEN FALSE
  ELSE IF Head(s) = Head(t) THEN IsSubsequence(Tail(s), Tail(t))
  ELSE IsSubsequence(s, Tail(t))

OpsOf(c) == [i \in 1..Len(c) |-> c[i].op]

\* The calls of a whole run of the given action, in the order of the stages.
CallOrder(action) ==
  <<"getBalance", "decimals", "symbol", "name", "getUserMarketShares">>
  \o (IF action = "buy"
        THEN <<"balanceOf", "allowance", "approve.estimateGas", "getFeeData",
               "approve", "approve.wait">>
        ELSE <<>>)
  \o <<action \o ".estimateGas", "getFeeData", action, action \o ".wait",
       "getUserMarketShares">>

\* A run that ends well reads the position once before and once after the
\* action, and a run that fails never reads it after the action.
SharesReadAroundAction ==
  /\ (pc = "exited" /\ exitCode = 0) =>
       /\ Times("getUserMarketShares") = 2
       /\ preShares # "unread" /\ postShares # "unread"
       /\ Issued(args.action \o ".estimateGas") /\ Issued(args.action \o ".wait")
       /\ IndexOf("getUserMarketShares") < IndexOf(args.action \o ".estimateGas")
       /\ LastOp = "getUserMarketShares"
       /\ IndexOf(args.action \o ".wait") = Len(calls) - 1
  /\ (pc # "exited" \/ exitCode = 1) =>
       /\ postShares = "unread"
       /\ Times("getUserMarketShares") <= 1
       /\ \A i \in 1..Len(stages) : stages[i] # "postShares"
  /\ calls # <<>> => IsSubsequence(OpsOf(calls), CallOrder(args.action))

ClaimedStageOrder ==
  <<"parse", "config", "abi", "connect", "bind", "tokenInfo", "preShares",
    "balance", "approval", "action", "postShares">>

ActualStageOrder ==
  <<"config", "parse", "abi", "connect", "bind", "tokenInfo", "preShares",
    "balance", "approval", "action", "postShares">>

\* C10 as stated: the stages entered are, in this order, argument parsing,
\* config load, ABI load, connection, binding, token metadata, the first
\* position read, (buy) the balance check and approval, the action, the second
\* position read; the position is read once before and once after the action of
\* a successful run and never after a failed action.
C10_AsStated ==
  /\ IsSubsequence(stages, ClaimedStageOrder)
  /\ SharesReadAroundAction

\* C10, amended: the stages entered are, in this order, resolution of the
\* environment configuration, argument parsing, ABI load, connection, binding,
\* token metadata, the first position read, (buy) the balance check and
\* approval, the action, the second position read, and the calls to the node
\* follow that order; the position is read once before and once after the
\* action of a successful run and never after a failed action.
C10_StageOrder ==
  /\ IsSubsequence(stages, ActualStageOrder)
  /\ SharesReadAroundAction

\* C10 witness: a buy that needed an approval went through every stage.
C10_Witness ==
  /\ stages = ActualStageOrder
  /\ Issued("approve.wait")
  /\ pc = "exited" /\ exitCode = 0

MainSendOps == {"buy", "sell", "claimWinnings"}
CallFailureErrors == {"setup", "tokenInfo", "rpc"}

\* The position read that has failed: the read was sent and came back null.
PositionReadFailed == Encodable(args.marketId) /\ "null" \in {preShares, postShares}

\* No call is issued twice, but for the two that the run schedules twice
\* whatever their outcome: the fee-data read, once for the approval and once
\* for the action right after their gas estimations, and the position read,
\* once before the action and once after its confirmation.
NoCallRepeated ==
  \A i \in 1..Len(calls) : \A j \in (i + 1)..Len(calls) :
    calls[i].op = calls[j].op =>
      \/ /\ calls[i].op = "getFeeData"
         /\ calls[i - 1].op = "approve.estimateGas"
         /\ calls[j - 1].op = args.action \o ".estimateGas"
         /\ Times("getFeeData") = 2
      \/ /\ calls[i].op = "getUserMarketShares"
         /\ j = Len(calls)
         /\ calls[j - 1].op = args.action \o ".wait"
         /\ Times("getUserMarketShares") = 2

AtMostOneTransactionEach ==
  /\ Times("approve") <= 1
  /\ Cardinality({i \in 1..Len(calls) : calls[i].op \in MainSendOps}) <= 1
  /\ \A i \in 1..Len(calls) : calls[i].op \in MainSendOps => calls[i].op = args.action

\* The step issues a call that fails with an error thrown to main.
CallFailsInStep ==
  /\ Len(calls') > Len(calls)
  /\ stderr = "" /\ stderr' \in CallFailureErrors

\* The step issues a position read that fails.
PositionReadFailsInStep ==
  /\ Len(calls') > Len(calls)
  /\ \/ pc = "preShares" /\ preShares' = "null"
     \/ pc = "postShares" /\ postShares' = "null"

\* C11 as stated: no call is re-attempted, at most one approve and one
\* main-action transaction are submitted, and a run in which any external call
\* failed, the position read included, has ended with a non-zero status with
\* the failed call as its last call.
C11_AsStated ==
  /\ NoCallRepeated
  /\ AtMostOneTransactionEach
  /\ (stderr \in CallFailureErrors \/ PositionReadFailed) =>
       /\ pc = "exited" /\ exitCode = 1 /\ ~successPrinted
       /\ PositionReadFailed => LastOp = "getUserMarketShares"

\* C11, amended: no call is re-attempted (the fee-data read and the position
\* read are each issued at most twice, at the two places the run schedules
\* them), at most one approve and one main-action transaction are submitted,
\* and the failure of any external call other than the position read ends the
\* run in the same step with status 1 and without the success message, after
\* which nothing more happens; a failed position read is issued once, sets no
\* error, and the run goes on to the action or to its successful end.
C11_NoRetry ==
  /\ [](NoCallRepeated /\ AtMostOneTransactionEach)
  /\ [][ /\ pc # "exited"
         /\ CallFailsInStep =>
              /\ pc' = "exited" /\ exitCode' = 1 /\ ~successPrinted'
              /\ postShares' = "unread"
         /\ PositionReadFailsInStep =>
              /\ Len(calls') = Len(calls) + 1
              /\ stderr' = ""
              /\ pc = "preShares" => pc' \in {"buyBalance", "sellEstimate", "claimEstimate"}
              /\ pc = "postShares" => (pc' = "exited" /\ exitCode' = 0) ]_vars

\* C11 witness: the first position read failed and the run went on; the
\* approval was confirmed, then the submission of the buy failed and ended the
\* run with status 1, with the buy as the last call.
C11_Witness ==
  /\ preShares = "null" /\ Encodable(args.marketId)
  /\ Times("approve") = 1 /\ Times("buy") = 1 /\ LastOp = "buy"
  /\ pc = "exited" /\ exitCode = 1 /\ stderr = "rpc"

BuySubmitted == allowanceAtBuy # -1

\* checkAndApprove returned: it found the allowance sufficient, or it saw its
\* approval confirmed.
CheckerSatisfied ==
  /\ AllowanceRead
  /\ \/ currentAllowance >= Required
     \/ currentAllowance < Required /\ Issued("approve") /\ Issued("approve.wait")

\* C12: the buy is submitted only after the allowance checker reported
\* sufficiency or confirmed its approval; as long as no other party has changed
\* the allowance, the allowance on the chain is at least the requested value
\* from the checker's return to the submission, and at the submission itself.
\* The interleaving in which another party has changed it and the buy is
\* submitted below the requested value is the witness.
C12_CheckThenBuyNotAtomic ==
  /\ (pc \in BuyStages \/ BuySubmitted) => CheckerSatisfied
  /\ (~interfered /\ pc \in BuyStages) => chainAllowance >= Required
  /\ (~interfered /\ BuySubmitted) =>
       /\ allowanceAtBuy >= Required
       /\ allowanceAtBuy = chainAllowance
  /\ BuySubmitted => (Issued("buy") /\ args.action = "buy")
  /\ interfered => args.action = "buy" /\ AllowanceRead

\* C12 witness: the checker found the allowance sufficient, another party
\* lowered it, and the buy transaction was accepted for submission while the
\* allowance was below the requested value.
C12_Witness ==
  /\ interfered
  /\ currentAllowance >= Required /\ ~Issued("approve")
  /\ pc = "buyWait" /\ LastOp = "buy"
  /\ allowanceAtBuy < Required

\* The same after an approval the checker saw confirmed.
BuyBelowAfterConfirmedApproval ==
  /\ interfered
  /\ currentAllowance < Required /\ Issued("approve.wait")
  /\ pc = "buyWait" /\ LastOp = "buy"
  /\ allowanceAtBuy < Required

====
